---- MODULE Spec2Model ----
(***************************************************************************)
(* Model of main.py: the WebSocket chat relay (ConnectionManager and the   *)
(* /ws endpoint) and the photo upload / listing endpoints.                 *)
(*                                                                         *)
(* Four specifications share the variables:                                *)
(*   Spec       the /ws endpoint: one task per session, interleaved at the *)
(*              await points of websocket_endpoint and broadcast;          *)
(*   SpecLive   the same endpoint with the remote peers in the state and   *)
(*              fair scheduling of the tasks, for liveness;                *)
(*   SpecMgr    the ConnectionManager driven directly by arbitrary         *)
(*              sequences of connect / disconnect calls;                   *)
(*   SpecPhotos the /upload-photo and /photos handlers over the upload     *)
(*              directory.                                                 *)
(***************************************************************************)
EXTENDS Integers, Sequences, FiniteSets, TLC

\* ------------------------------------------------------------------ bounds
NumSessions == 2
MaxBroadcasts == 2
MaxLiveBroadcasts == 1     \* broadcasts in SpecLive
MaxOps == 5
NumRequests == 2

Sessions == 1..NumSessions
Msgs == {"hello", "bye"}

VARIABLES
    active_connections, \* ConnectionManager.active_connections: a list of sessions
    handshake,          \* per websocket: "connecting" | "accepted" | "failed"
    pc,                 \* per session task: where websocket_endpoint stands
    snap,               \* per task: the list broadcast iterates, list(self.active_connections)
    idx,                \* per task: position of the for loop in snap
    data,               \* per task: the text returned by receive_text
    heard,              \* history, per task: the text its last receive_text returned
    regAtCall,          \* history, per task: active_connections when its broadcast was called
    anyFail,            \* history, per task: whether a send_text of its broadcast has raised
    attempts,           \* history, per task: the send_text calls of its broadcast, in order
    failed,             \* history: sessions on which some send_text has raised
    nBroadcasts,        \* history: broadcast calls made so far
    lateSends,          \* history: sessions sent to after their task had ended
    closeResult,        \* per task: "none" | "ok" | "raised", the outcome of websocket.close()
    peer,               \* SpecLive, per session: the remote end, "up" | "gone" | "error"
    nConnects,          \* history (SpecMgr): connect calls that returned normally
    nMatched,           \* history (SpecMgr): disconnect calls on a registered session
    nOps,               \* history (SpecMgr): calls made so far
    raised,             \* SpecMgr: whether the last ConnectionManager call raised
    lastOp,             \* history (SpecMgr): the last call
    prevOp,             \* history (SpecMgr): the call before it
    prevConns,          \* history (SpecMgr): active_connections before the last call
    files,              \* UPLOAD_DIR: file name -> contents
    upc,                \* per upload request: "idle" | "reading" | "done"
    req,                \* per upload request: its content type, and its locals
    resp,               \* per upload request: the response
    overwrote,          \* history, per request: whether its open() found its name in use
    photos,             \* the response of GET /photos, if that was the last step
    listed              \* history: whether it was, and the names then stored

\* The per-task histories describe the task's current broadcast, or the one it has
\* just completed; the task's next step (a read outcome) overwrites or clears them.
chatVars == <<pc, snap, idx, data, heard, regAtCall, anyFail, attempts, failed,
              nBroadcasts, lateSends, closeResult, peer>>
mgrVars == <<nConnects, nMatched, nOps, raised, lastOp, prevOp, prevConns>>
photoVars == <<files, upc, req, resp, overwrote, photos, listed>>
vars == <<active_connections, handshake, chatVars, mgrVars, photoVars>>

\* ----------------------------------------------------------------- helpers
Range(seq) == {seq[i] : i \in 1..Len(seq)}

\* list.remove(x): drops the first occurrence of x
\* list.pop(): the last element goes, whatever was asked.
ListRemove_last(seq, x) == SubSeq(seq, 1, Len(seq) - 1)

ListRemove(seq, x) ==
    LET i == CHOOSE k \in 1..Len(seq) : seq[k] = x /\ \A j \in 1..(k - 1) : seq[j] # x
    IN  SubSeq(seq, 1, i - 1) \o SubSeq(seq, i + 1, Len(seq))

\* ------------------------------------------------------- ConnectionManager
\* connect: await websocket.accept(), then append.  accept raises on a websocket
\* that is not in its connecting state, and when the handshake fails; the append
\* is only reached when accept returns.
connect_append_first(conns, ws, st, accept_ok) ==
    IF st = "connecting" /\ accept_ok
    THEN [conns |-> Append(conns, ws), state |-> "accepted", raised |-> FALSE]
    ELSE [conns |-> Append(conns, ws),
          state |-> IF st = "connecting" THEN "failed" ELSE st,
          raised |-> TRUE]

\* The websocket appended a second time after the handshake.
connect_twice(conns, ws, st, accept_ok) ==
    IF st = "connecting" /\ accept_ok
    THEN [conns |-> conns \o <<ws, ws>>, state |-> "accepted", raised |-> FALSE]
    ELSE [conns |-> conns,
          state |-> IF st = "connecting" THEN "failed" ELSE st,
          raised |-> TRUE]

connect(conns, ws, st, accept_ok) ==
    IF st = "connecting" /\ accept_ok
    THEN [conns |-> Append(conns, ws), state |-> "accepted", raised |-> FALSE]
    ELSE [conns |-> conns,
          state |-> IF st = "connecting" THEN "failed" ELSE st,
          raised |-> TRUE]

\* disconnect: remove if present.  list.remove raises ValueError on an absent
\* element, which the membership test rules out.
disconnect_unguarded(conns, ws) ==
    IF ws \in Range(conns)
    THEN [conns |-> ListRemove(conns, ws), raised |-> FALSE]
    ELSE [conns |-> conns, raised |-> TRUE]

disconnect_keeps(conns, ws) == [conns |-> conns, raised |-> FALSE]

disconnect(conns, ws) ==
    IF ws \in Range(conns)
    THEN [conns |-> ListRemove(conns, ws), raised |-> FALSE]
    ELSE [conns |-> conns, raised |-> FALSE]

\* broadcast: the list its for loop iterates, list(self.active_connections)
broadcast_snapshot_skip_first(conns) == Tail(conns)

broadcast_snapshot(conns) == conns

\* ------------------------------------------------------------------ strings
\* File names are Python str values: sequences of code points.
Lowercase == <<"a", "b", "c", "d", "e", "f", "g", "h", "i", "j", "k", "l", "m",
               "n", "o", "p", "q", "r", "s", "t", "u", "v", "w", "x", "y", "z">>
Uppercase == <<"A", "B", "C", "D", "E", "F", "G", "H", "I", "J", "K", "L", "M",
               "N", "O", "P", "Q", "R", "S", "T", "U", "V", "W", "X", "Y", "Z">>
Digits == <<"0", "1", "2", "3", "4", "5", "6", "7", "8", "9">>

IndexIn(seq, c) == CHOOSE i \in 1..Len(seq) : seq[i] = c

Ord(c) ==
    CASE c = "." -> 46
      [] c = "/" -> 47
      [] c \in Range(Digits) -> 47 + IndexIn(Digits, c)
      [] c \in Range(Uppercase) -> 64 + IndexIn(Uppercase, c)
      [] c \in Range(Lowercase) -> 96 + IndexIn(Lowercase, c)

Str(chars) == [i \in 1..Len(chars) |-> Ord(chars[i])]

\* str.lower(), on the characters above
str_lower(str) ==
    [i \in 1..Len(str) |-> IF str[i] >= 65 /\ str[i] <= 90 THEN str[i] + 32 ELSE str[i]]

\* str.endswith(suffix)
endswith(str, suffix) ==
    /\ Len(str) >= Len(suffix)
    /\ SubSeq(str, Len(str) - Len(suffix) + 1, Len(str)) = suffix

\* str.rfind(c), 1-based, 0 when absent
rfind(str, c) ==
    IF \E i \in 1..Len(str) : str[i] = c
    THEN CHOOSE i \in 1..Len(str) : str[i] = c /\ \A j \in (i + 1)..Len(str) : str[j] # c
    ELSE 0

\* a < b on str: by code point at the first difference, a proper prefix first
str_lt(a, b) ==
    \E k \in 1..Len(b) :
        /\ k <= Len(a) + 1
        /\ \A j \in 1..(k - 1) : a[j] = b[j]
        /\ (k = Len(a) + 1 \/ a[k] < b[k])

\* os.path.splitext(p): the extension starts at the last dot of the last path
\* component, unless that component has only dots before it.
Sep == Ord("/")
ExtSep == Ord(".")

splitext(p) ==
    LET sepIndex == rfind(p, Sep)
        dotIndex == rfind(p, ExtSep)
    IN  IF dotIndex > sepIndex
           /\ \E k \in (sepIndex + 1)..(dotIndex - 1) : p[k] # ExtSep
        THEN <<SubSeq(p, 1, dotIndex - 1), SubSeq(p, dotIndex, Len(p))>>
        ELSE <<p, <<>>>>

\* ---------------------------------------------------------- upload_photo
Requests == 1..NumRequests

\* file.content_type values tried: an allowed one, and two that are not
ContentTypes == {"image/png", "application/pdf", "image/gif"}

\* file.filename values tried
Filenames ==
    { Str(<<"a", ".", "p", "n", "g">>),
      Str(<<"b", ".", "J", "P", "G">>),
      Str(<<"p", "i", "c">>),
      Str(<<"c", ".", "g", "i", "f">>),
      Str(<<".", "p", "n", "g">>) }

\* request bodies tried
Payloads == {<<7, 8>>}

\* uuid.uuid4().hex: short stand-ins for the 32 hex digits; the call of each
\* request returns a value of its own.
uuid4_hex(r) == Str(<<Digits[r + 1], "f", "e">>)

OldContents == <<1>>

\* directories the server may start on
InitialDirs ==
    { {},
      { Str(<<"b", ".", "p", "n", "g">>),
        Str(<<"a", ".", "j", "p", "g">>),
        Str(<<"c", ".", "j", "p", "e", "g">>) },
      { Str(<<"D", ".", "P", "N", "G">>),
        Str(<<"n", "o", "t", "e", "s", ".", "t", "x", "t">>) } }

\* The response of /photos stays visible until the next request step.
NotListed == [called |-> FALSE, names |-> {}]

NoRequest == [content_type |-> "", unique_name |-> <<>>, contents |-> <<>>]
NoResponse == [status |-> 0, filename |-> <<>>, url |-> <<>>, content_type |-> ""]

\* file.content_type in ("image/jpeg", "image/png", "image/jpg")
content_type_allowed_any(ct) == TRUE

content_type_allowed(ct) == ct \in {"image/jpeg", "image/png", "image/jpg"}

\* ext = os.path.splitext(file.filename)[1] or ".jpg"
DefaultExt == Str(<<".", "j", "p", "g">>)

upload_ext(filename) ==
    LET ext == splitext(filename)[2]
    IN  IF ext = <<>> THEN DefaultExt ELSE ext

\* unique_name = f"{uuid.uuid4().hex}{ext}"
unique_name(hex, filename) == hex \o upload_ext(filename)

\* f"/images/{name}"
ImagesMount == Str(<<"/", "i", "m", "a", "g", "e", "s", "/">>)

url_path(name) == ImagesMount \o name

\* ------------------------------------------------------------ list_photos
ImageSuffixes ==
    { Str(<<".", "j", "p", "g">>),
      Str(<<".", "j", "p", "e", "g">>),
      Str(<<".", "p", "n", "g">>) }

\* fname.lower().endswith((".jpg", ".jpeg", ".png"))
looks_like_image(fname) == \E suffix \in ImageSuffixes : endswith(str_lower(fname), suffix)

\* the for loop over os.listdir(UPLOAD_DIR), which returns the names in any order
collect(order) ==
    LET kept == SelectSeq(order, looks_like_image)
    IN  [i \in 1..Len(kept) |-> [filename |-> kept[i], url |-> url_path(kept[i])]]

\* files.sort(key=lambda x: x["filename"]): stable, ascending
RECURSIVE sort_by_filename(_)
sort_by_filename(seq) ==
    IF seq = <<>> THEN <<>>
    ELSE LET x == seq[Len(seq)]
             rest == sort_by_filename(SubSeq(seq, 1, Len(seq) - 1))
             n == Cardinality({i \in 1..Len(rest) : ~str_lt(x.filename, rest[i].filename)})
         IN  SubSeq(rest, 1, n) \o <<x>> \o SubSeq(rest, n + 1, Len(rest))

list_photos_unsorted(order) == collect(order)

list_photos(order) == sort_by_filename(collect(order))

RECURSIVE Orders(_)
Orders(S) ==
    IF S = {} THEN {<<>>}
    ELSE UNION {{<<x>> \o p : p \in Orders(S \ {x})} : x \in S}

\* ----------------------------------------------------------------- Init
NoOp == [op |-> "none", ws |-> 0]

InitRelay ==
    /\ active_connections = <<>>
    /\ handshake = [s \in Sessions |-> "connecting"]
    /\ pc = [s \in Sessions |-> "new"]
    /\ snap = [s \in Sessions |-> <<>>]
    /\ idx = [s \in Sessions |-> 0]
    /\ data = [s \in Sessions |-> ""]
    /\ heard = [s \in Sessions |-> ""]
    /\ regAtCall = [s \in Sessions |-> <<>>]
    /\ anyFail = [s \in Sessions |-> FALSE]
    /\ attempts = [s \in Sessions |-> <<>>]
    /\ failed = {}
    /\ nBroadcasts = 0
    /\ lateSends = {}
    /\ closeResult = [s \in Sessions |-> "none"]
    /\ peer = [s \in Sessions |-> "up"]
    /\ nConnects = 0
    /\ nMatched = 0
    /\ nOps = 0
    /\ raised = FALSE
    /\ lastOp = NoOp
    /\ prevOp = NoOp
    /\ prevConns = <<>>

\* os.makedirs(UPLOAD_DIR, exist_ok=True): the directory may hold files already.
InitStore(dir) ==
    /\ files = [n \in dir |-> OldContents]
    /\ upc = [r \in Requests |-> "idle"]
    /\ req = [r \in Requests |-> NoRequest]
    /\ resp = [r \in Requests |-> NoResponse]
    /\ overwrote = [r \in Requests |-> FALSE]
    /\ photos = <<>>
    /\ listed = NotListed

Init == InitRelay /\ InitStore({})

InitPhotos == InitRelay /\ \E dir \in InitialDirs : InitStore(dir)

\* ------------------------------------------------------- websocket_endpoint
\* await manager.connect(websocket), outside the try: a failed handshake ends
\* the task with nothing registered.
Connect(s) ==
    /\ pc[s] = "new"
    /\ \E accept_ok \in BOOLEAN :
         LET r == connect(active_connections, s, handshake[s], accept_ok)
         IN  /\ active_connections' = r.conns
             /\ handshake' = [handshake EXCEPT ![s] = r.state]
             /\ pc' = [pc EXCEPT ![s] = IF r.raised THEN "failed" ELSE "reading"]
    /\ UNCHANGED <<snap, idx, data, heard, regAtCall, anyFail, attempts, failed,
                   nBroadcasts, lateSends, closeResult, peer, mgrVars, photoVars>>

\* receive_text returns a text: broadcast(data) runs up to its first await,
\* that is, it copies the list and starts the loop (an empty list ends it at once).
ReadStep(s, from) ==
    /\ pc[s] \in from
    /\ nBroadcasts < MaxBroadcasts
    /\ \E m \in Msgs :
         LET targets == broadcast_snapshot(active_connections)
         IN  /\ data' = [data EXCEPT ![s] = IF targets = <<>> THEN "" ELSE m]
             /\ snap' = [snap EXCEPT ![s] = targets]
             /\ idx' = [idx EXCEPT ![s] = IF targets = <<>> THEN 0 ELSE 1]
             /\ heard' = [heard EXCEPT ![s] = m]
             /\ regAtCall' = [regAtCall EXCEPT ![s] = active_connections]
             /\ anyFail' = [anyFail EXCEPT ![s] = FALSE]
             /\ attempts' = [attempts EXCEPT ![s] = <<>>]
             /\ pc' = [pc EXCEPT ![s] = IF targets = <<>> THEN "reading" ELSE "sending"]
    /\ nBroadcasts' = nBroadcasts + 1
    /\ UNCHANGED <<active_connections, handshake, failed, lateSends, closeResult, peer,
                   mgrVars, photoVars>>

\* A reader that does not await broadcast before it reads again.
ReceiveText_while_sending(s) == ReadStep(s, {"reading", "sending"})

\* The endpoint reads only between broadcasts: "await manager.broadcast(...)"
\* returns before the loop comes back to receive_text.
ReceiveText(s) == ReadStep(s, {"reading"})

\* One iteration of broadcast's for loop: await connection.send_text(message);
\* an exception is caught and printed, and the loop goes on.  After the last
\* element broadcast returns and the endpoint loops back to receive_text.
\* SendStep(s, stop_on_failure, propagate) is the iteration; the code neither
\* leaves the loop on a failure nor lets the failure out of broadcast.
SendStep(s, stop_on_failure, propagate) ==
    /\ pc[s] = "sending"
    /\ \E ok \in BOOLEAN :
         LET to == snap[s][idx[s]]
             out == ~ok /\ propagate
             last == idx[s] = Len(snap[s]) \/ (~ok /\ stop_on_failure) \/ out
         IN  /\ attempts' = [attempts EXCEPT ![s] =
                                Append(@, [to |-> to, text |-> data[s]])]
             /\ anyFail' = [anyFail EXCEPT ![s] = @ \/ ~ok]
             /\ failed' = IF ok THEN failed ELSE failed \cup {to}
             /\ lateSends' = IF pc[to] = "closed" THEN lateSends \cup {to} ELSE lateSends
             /\ idx' = [idx EXCEPT ![s] = IF last THEN 0 ELSE @ + 1]
             /\ snap' = [snap EXCEPT ![s] = IF last THEN <<>> ELSE @]
             /\ data' = [data EXCEPT ![s] = IF last THEN "" ELSE @]
             /\ active_connections' =
                    IF out THEN disconnect(active_connections, s).conns
                    ELSE active_connections
             /\ pc' = [pc EXCEPT ![s] =
                          IF out THEN "closing" ELSE IF last THEN "reading" ELSE "sending"]
    /\ UNCHANGED <<handshake, heard, regAtCall, nBroadcasts, closeResult, peer,
                   mgrVars, photoVars>>

SendText_abort_on_failure(s) == SendStep(s, TRUE, FALSE)

SendText_propagates(s) == SendStep(s, FALSE, TRUE)

\* The loop run over self.active_connections itself instead of a copy of it.
SendText_live(s) ==
    /\ pc[s] = "sending"
    /\ \E ok \in BOOLEAN :
         LET live == active_connections
             has == idx[s] <= Len(live)
             to == IF has THEN live[idx[s]] ELSE 0
             last == idx[s] >= Len(live)
         IN  /\ attempts' = [attempts EXCEPT ![s] =
                                IF has THEN Append(@, [to |-> to, text |-> data[s]]) ELSE @]
             /\ anyFail' = [anyFail EXCEPT ![s] = @ \/ (has /\ ~ok)]
             /\ failed' = IF has /\ ~ok THEN failed \cup {to} ELSE failed
             /\ lateSends' = IF has /\ pc[to] = "closed"
                              THEN lateSends \cup {to} ELSE lateSends
             /\ idx' = [idx EXCEPT ![s] = IF last THEN 0 ELSE @ + 1]
             /\ snap' = [snap EXCEPT ![s] = IF last THEN <<>> ELSE @]
             /\ data' = [data EXCEPT ![s] = IF last THEN "" ELSE @]
             /\ pc' = [pc EXCEPT ![s] = IF last THEN "reading" ELSE "sending"]
    /\ UNCHANGED <<active_connections, handshake, heard, regAtCall, nBroadcasts,
                   closeResult, peer, mgrVars, photoVars>>

SendText(s) == SendStep(s, FALSE, FALSE)

\* The task leaves its read loop: the histories of its last broadcast are dropped.
EndOfLoop(s) ==
    /\ heard' = [heard EXCEPT ![s] = ""]
    /\ regAtCall' = [regAtCall EXCEPT ![s] = <<>>]
    /\ anyFail' = [anyFail EXCEPT ![s] = FALSE]
    /\ attempts' = [attempts EXCEPT ![s] = <<>>]

\* receive_text raises WebSocketDisconnect: manager.disconnect, and the task ends.
ReceiveDisconnect(s) ==
    /\ pc[s] = "reading"
    /\ active_connections' = disconnect(active_connections, s).conns
    /\ pc' = [pc EXCEPT ![s] = "closed"]
    /\ EndOfLoop(s)
    /\ UNCHANGED <<handshake, snap, idx, data, failed, nBroadcasts, lateSends,
                   closeResult, peer, mgrVars, photoVars>>

\* An endpoint whose handlers miss the exception: the task ends, nothing is cleaned up.
ReceiveError_uncaught(s) ==
    /\ pc[s] = "reading"
    /\ pc' = [pc EXCEPT ![s] = "closed"]
    /\ EndOfLoop(s)
    /\ UNCHANGED <<active_connections, handshake, snap, idx, data, failed, nBroadcasts,
                   lateSends, closeResult, peer, mgrVars, photoVars>>

\* receive_text raises another Exception: manager.disconnect, then the task
\* awaits websocket.close().
ReceiveError(s) ==
    /\ pc[s] = "reading"
    /\ active_connections' = disconnect(active_connections, s).conns
    /\ pc' = [pc EXCEPT ![s] = "closing"]
    /\ EndOfLoop(s)
    /\ UNCHANGED <<handshake, snap, idx, data, failed, nBroadcasts, lateSends,
                   closeResult, peer, mgrVars, photoVars>>

\* A close whose failure is not swallowed: the exception ends the task.
CloseChannel_surfaces(s) ==
    /\ pc[s] = "closing"
    /\ \E close_ok \in BOOLEAN :
         /\ closeResult' = [closeResult EXCEPT ![s] = IF close_ok THEN "ok" ELSE "raised"]
         /\ pc' = [pc EXCEPT ![s] = IF close_ok THEN "closed" ELSE "crashed"]
    /\ UNCHANGED <<active_connections, handshake, snap, idx, data, heard, regAtCall,
                   anyFail, attempts, failed, nBroadcasts, lateSends, peer,
                   mgrVars, photoVars>>

\* websocket.close() returns or raises; a bare except swallows the failure.
CloseChannel(s) ==
    /\ pc[s] = "closing"
    /\ \E close_ok \in BOOLEAN :
         /\ closeResult' = [closeResult EXCEPT ![s] = IF close_ok THEN "ok" ELSE "raised"]
         /\ pc' = [pc EXCEPT ![s] = "closed"]
    /\ UNCHANGED <<active_connections, handshake, snap, idx, data, heard, regAtCall,
                   anyFail, attempts, failed, nBroadcasts, lateSends, peer,
                   mgrVars, photoVars>>

\* ------------------------------------------- ConnectionManager, called directly
\* manager.connect(ws) on any websocket, whatever its handshake state.
MgrConnect(s) ==
    /\ nOps < MaxOps
    /\ \E accept_ok \in BOOLEAN :
         LET r == connect(active_connections, s, handshake[s], accept_ok)
         IN  /\ active_connections' = r.conns
             /\ handshake' = [handshake EXCEPT ![s] = r.state]
             /\ raised' = r.raised
             /\ nConnects' = IF r.raised THEN nConnects ELSE nConnects + 1
    /\ nOps' = nOps + 1
    /\ prevConns' = active_connections
    /\ prevOp' = lastOp
    /\ lastOp' = [op |-> "connect", ws |-> s]
    /\ UNCHANGED <<nMatched, chatVars, photoVars>>

\* manager.disconnect(ws) on any websocket, registered or not.
MgrDisconnect(s) ==
    /\ nOps < MaxOps
    /\ LET r == disconnect(active_connections, s)
       IN  /\ active_connections' = r.conns
           /\ raised' = r.raised
    /\ nMatched' = IF s \in Range(active_connections) THEN nMatched + 1 ELSE nMatched
    /\ nOps' = nOps + 1
    /\ prevConns' = active_connections
    /\ prevOp' = lastOp
    /\ lastOp' = [op |-> "disconnect", ws |-> s]
    /\ UNCHANGED <<handshake, nConnects, chatVars, photoVars>>

NextMgr ==
    \E s \in Sessions :
        \/ MgrConnect(s)
        \/ MgrDisconnect(s)

SpecMgr == Init /\ [][NextMgr]_vars

\* ------------------------------------------------------------ /upload-photo
\* The handler up to "contents = await file.read()": validation, then the name.
\* (uploaded_at, the wall-clock time of the response, is left out.)
UploadStart(r) ==
    /\ upc[r] = "idle"
    /\ \E ct \in ContentTypes : \E fn \in Filenames : \E body \in Payloads :
         IF ~content_type_allowed(ct)
         THEN /\ upc' = [upc EXCEPT ![r] = "done"]
              /\ req' = [req EXCEPT ![r] = [NoRequest EXCEPT !.content_type = ct]]
              /\ resp' = [resp EXCEPT ![r] = [NoResponse EXCEPT !.status = 400]]
         ELSE /\ upc' = [upc EXCEPT ![r] = "reading"]
              /\ req' = [req EXCEPT ![r] = [content_type |-> ct,
                                            unique_name |-> unique_name(uuid4_hex(r), fn),
                                            contents |-> body]]
              /\ UNCHANGED resp
    /\ photos' = <<>>
    /\ listed' = NotListed
    /\ UNCHANGED <<files, overwrote>>
    /\ UNCHANGED <<active_connections, handshake, chatVars, mgrVars>>

\* The rest of the handler: open(file_path, "wb") creates or truncates the file,
\* f.write(contents) fills it; either may raise (a server error), the second
\* after writing only part of the contents.
UploadSave(r) ==
    /\ upc[r] = "reading"
    /\ LET name == req[r].unique_name
           body == req[r].contents
           put(c) == [n \in DOMAIN files \cup {name} |-> IF n = name THEN c ELSE files[n]]
       IN  \/ /\ files' = put(body)
               /\ resp' = [resp EXCEPT ![r] = [status |-> 200, filename |-> name,
                                              url |-> url_path(name),
                                              content_type |-> req[r].content_type]]
           \/ /\ files' = files
               /\ resp' = [resp EXCEPT ![r] = [NoResponse EXCEPT !.status = 500]]
           \/ /\ \E k \in 0..(Len(body) - 1) : files' = put(SubSeq(body, 1, k))
               /\ resp' = [resp EXCEPT ![r] = [NoResponse EXCEPT !.status = 500]]
    /\ overwrote' = [overwrote EXCEPT ![r] = files' # files /\ req[r].unique_name \in DOMAIN files]
    /\ upc' = [upc EXCEPT ![r] = "done"]
    /\ req' = [req EXCEPT ![r] = [NoRequest EXCEPT !.content_type = req[r].content_type]]
    /\ photos' = <<>>
    /\ listed' = NotListed
    /\ UNCHANGED <<active_connections, handshake, chatVars, mgrVars>>

\* ------------------------------------------------------------------ /photos
ListPhotos ==
    /\ photos' \in {list_photos(order) : order \in Orders(DOMAIN files)}
    /\ listed' = [called |-> TRUE, names |-> DOMAIN files]
    /\ UNCHANGED <<files, upc, req, resp, overwrote>>
    /\ UNCHANGED <<active_connections, handshake, chatVars, mgrVars>>

NextPhotos ==
    \/ \E r \in Requests : UploadStart(r) \/ UploadSave(r)
    \/ ListPhotos

SpecPhotos == InitPhotos /\ [][NextPhotos]_vars

Next ==
    \E s \in Sessions :
        \/ Connect(s)
        \/ ReceiveText(s)
        \/ SendText(s)
        \/ ReceiveDisconnect(s)
        \/ ReceiveError(s)
        \/ CloseChannel(s)

Spec == Init /\ [][Next]_vars

\* ------------------------------------------------- the relay with its peers
\* Spec leaves open why a read ends; here the remote end of each connection
\* is part of the state, and receive_text returns a text only while the peer
\* is up, raises WebSocketDisconnect once it has closed, and raises another
\* exception once the connection is broken.
PeerCloses(s) ==
    /\ pc[s] \in {"reading", "sending"}
    /\ peer[s] = "up"
    /\ peer' = [peer EXCEPT ![s] = "gone"]
    /\ UNCHANGED <<active_connections, handshake, pc, snap, idx, data, heard, regAtCall,
                   anyFail, attempts, failed, nBroadcasts, lateSends, closeResult,
                   mgrVars, photoVars>>

PeerBreaks(s) ==
    /\ pc[s] \in {"reading", "sending"}
    /\ peer[s] = "up"
    /\ peer' = [peer EXCEPT ![s] = "error"]
    /\ UNCHANGED <<active_connections, handshake, pc, snap, idx, data, heard, regAtCall,
                   anyFail, attempts, failed, nBroadcasts, lateSends, closeResult,
                   mgrVars, photoVars>>

LiveReceiveText(s) ==
    /\ peer[s] = "up"
    /\ nBroadcasts < MaxLiveBroadcasts
    /\ ReceiveText(s)

LiveReceiveDisconnect(s) == peer[s] = "gone" /\ ReceiveDisconnect(s)

LiveReceiveError(s) == peer[s] = "error" /\ ReceiveError(s)

\* The steps of the task of s that wait for nothing but the event loop and
\* the completion of an await already started.
TaskStep(s) ==
    \/ SendText(s)
    \/ LiveReceiveDisconnect(s)
    \/ LiveReceiveError(s)
    \/ CloseChannel(s)

NextLive ==
    \E s \in Sessions :
        \/ Connect(s)
        \/ PeerCloses(s)
        \/ PeerBreaks(s)
        \/ LiveReceiveText(s)
        \/ SendText(s)
        \/ LiveReceiveDisconnect(s)
        \/ LiveReceiveError(s)
        \/ CloseChannel(s)

\* Fair scheduling: a task that can take a step is eventually run, and every
\* send it awaits eventually returns or raises.
SpecLive == Init /\ [][NextLive]_vars /\ \A s \in Sessions : WF_vars(TaskStep(s))

\* ================================================================== claims
Registered(s) == s \in Range(active_connections)

\* Lifecycle state Active: handshake accepted, task in its read loop.
Active(s) == pc[s] \in {"reading", "sending"}

\* The task has completed a broadcast and is back at receive_text.
BroadcastCompleted(s) == pc[s] = "reading" /\ heard[s] # ""

\* The number of send_text calls the task's broadcast has made on session r.
AttemptsOn(s, r) == Cardinality({i \in 1..Len(attempts[s]) : attempts[s][i].to = r})

\* C1: a session on which a send has failed is not in the registry when a later
\* broadcast takes its snapshot.  (The code never deregisters on a send failure.)
C1_FailedNotInLaterSnapshot ==
    [][nBroadcasts' = nBroadcasts + 1 =>
          \A s \in failed : ~Registered(s)]_vars

\* C2: every session in the registry when broadcast is called gets exactly one
\* send attempt of that message by the time broadcast returns (and never more than
\* one while it runs), whichever of the sends fail; no other session gets one.
C2_ExactlyOneAttempt ==
    \A s \in Sessions : \A r \in Sessions :
        /\ pc[s] = "sending" =>
              AttemptsOn(s, r) <= (IF r \in Range(regAtCall[s]) THEN 1 ELSE 0)
        /\ BroadcastCompleted(s) =>
              AttemptsOn(s, r) = (IF r \in Range(regAtCall[s]) THEN 1 ELSE 0)

C2_Witness ==
    \E s \in Sessions :
        BroadcastCompleted(s) /\ anyFail[s] /\ Len(regAtCall[s]) = 2
        /\ Len(attempts[s]) = 2 /\ nBroadcasts = 2

\* C3: every Active session is registered, and a broadcast whose sends all
\* succeeded delivered to every session registered at the call, the sender
\* included, exactly one frame, carrying the text the sender's read returned.
C3_RelayVerbatim ==
    /\ \A r \in Sessions : Active(r) => Registered(r)
    /\ \A s \in Sessions :
          (BroadcastCompleted(s) /\ ~anyFail[s]) =>
              /\ s \in Range(regAtCall[s])
              /\ \A r \in Range(regAtCall[s]) :
                    /\ AttemptsOn(s, r) = 1
                    /\ \A i \in 1..Len(attempts[s]) :
                          attempts[s][i].to = r => attempts[s][i].text = heard[s]

C3_Witness ==
    \E a \in Sessions : \E b \in Sessions \ {a} :
        /\ BroadcastCompleted(a) /\ ~anyFail[a] /\ heard[a] = "hello"
        /\ regAtCall[a] = <<a, b>>
        /\ attempts[a] = <<[to |-> a, text |-> "hello"], [to |-> b, text |-> "hello"]>>

\* C4 (SpecMgr): after any sequence of connect and disconnect calls the registry
\* holds as many sessions as connects returned minus disconnects that found their
\* session registered; a disconnect of an unregistered session changes nothing
\* and does not raise.
C4_CountIsConnectsMinusMatched ==
    /\ Len(active_connections) = nConnects - nMatched
    /\ (lastOp.op = "disconnect" /\ lastOp.ws \notin Range(prevConns)) =>
          (active_connections = prevConns /\ ~raised)

C4_Witness ==
    /\ nConnects = 2 /\ nMatched = 1 /\ Len(active_connections) = 1
    /\ lastOp.op = "disconnect" /\ lastOp.ws \notin Range(prevConns)
    /\ prevOp.op = "connect"

\* C5 (SpecMgr): no disconnect raises, and a second disconnect of the same session
\* right after the first leaves the registry as the first left it.
C5_DisconnectIdempotent ==
    /\ lastOp.op = "disconnect" => ~raised
    /\ (lastOp.op = "disconnect" /\ prevOp = lastOp) => active_connections = prevConns

C5_Witness ==
    /\ nOps = 3 /\ nConnects = 1 /\ nMatched = 1
    /\ lastOp = [op |-> "disconnect", ws |-> 1] /\ prevOp = lastOp

\* C6: a step of broadcast never takes the sending task out of its read loop,
\* whatever the send's outcome: the task stays registered, and when broadcast
\* returns every session of its snapshot has been attempted and the task is back
\* at receive_text.
C6_BroadcastNeverPropagates ==
    [][\A s \in Sessions :
          pc[s] = "sending" =>
              /\ pc'[s] \in {"sending", "reading"}
              /\ s \in Range(active_connections')
              /\ pc'[s] = "reading" =>
                    {attempts'[s][i].to : i \in 1..Len(attempts'[s])}
                        = Range(regAtCall[s])]_vars

C6_Witness ==
    \E s \in Sessions :
        /\ BroadcastCompleted(s) /\ anyFail[s] /\ nBroadcasts = 1
        /\ failed = Sessions /\ Registered(s)

\* C10: a session is in the registry iff it is Active and no send to it is known
\* to have failed.  (Fails with C1: a failed session stays registered.)
C10_RegisteredIffEligible ==
    \A s \in Sessions : Registered(s) <=> (Active(s) /\ s \notin failed)

\* C7 (SpecPhotos): an upload whose content type is not image/jpeg, image/png or
\* image/jpg is answered 400 at once, and the step that handles it leaves the
\* upload directory as it was.
C7_AllowedTypes == {"image/jpeg", "image/png", "image/jpg"}

C7_RejectedUploadWritesNothing ==
    [][\A r \in Requests :
          (upc[r] = "idle" /\ upc'[r] # "idle"
           /\ req'[r].content_type \notin C7_AllowedTypes) =>
              (upc'[r] = "done" /\ resp'[r].status = 400 /\ files' = files)]_vars

C7_Witness ==
    \E r \in Requests : \E q \in Requests :
        /\ upc[r] = "done" /\ resp[r].status = 400
        /\ req[r].content_type = "application/pdf"
        /\ upc[q] = "done" /\ resp[q].status = 200
        /\ resp[q].filename \in DOMAIN files

\* C8 (SpecPhotos): every accepted upload got a name that was not in the store,
\* and a listing taken after it holds its access path exactly once.  (Fails: the
\* listing drops names whose extension, taken from the original filename, is not
\* .jpg, .jpeg or .png.)
C8_AcceptedUploadListedOnce ==
    \A r \in Requests :
        (upc[r] = "done" /\ resp[r].status = 200) =>
            /\ ~overwrote[r]
            /\ listed.called =>
                  Cardinality({i \in 1..Len(photos) : photos[i].url = resp[r].url}) = 1

\* C9 (SpecPhotos): the listing holds exactly the stored names that end, in any
\* letter case, in .jpg, .jpeg or .png, each once, in ascending lexicographic
\* order; b.png, a.jpg, c.jpeg come back as a.jpg, b.png, c.jpeg.
C9_Fold(c) == IF c >= 65 /\ c <= 90 THEN c + 32 ELSE c

C9_IsImageName(f) ==
    \E suffix \in {Str(<<".", "j", "p", "g">>), Str(<<".", "j", "p", "e", "g">>),
                    Str(<<".", "p", "n", "g">>)} :
        /\ Len(f) >= Len(suffix)
        /\ \A i \in 1..Len(suffix) :
              C9_Fold(f[Len(f) - Len(suffix) + i]) = suffix[i]

RECURSIVE C9_Before(_, _)
C9_Before(a, b) ==
    IF b = <<>> THEN FALSE
    ELSE IF a = <<>> THEN TRUE
    ELSE IF Head(a) # Head(b) THEN Head(a) < Head(b)
    ELSE C9_Before(Tail(a), Tail(b))

C9_ExampleDir ==
    { Str(<<"b", ".", "p", "n", "g">>), Str(<<"a", ".", "j", "p", "g">>),
      Str(<<"c", ".", "j", "p", "e", "g">>) }

C9_ListSortedImages ==
    listed.called =>
        LET names == [i \in 1..Len(photos) |-> photos[i].filename]
        IN  /\ Range(names) = {f \in listed.names : C9_IsImageName(f)}
            /\ \A i \in 1..(Len(names) - 1) : C9_Before(names[i], names[i + 1])
            /\ listed.names = C9_ExampleDir =>
                  names = << Str(<<"a", ".", "j", "p", "g">>),
                             Str(<<"b", ".", "p", "n", "g">>),
                             Str(<<"c", ".", "j", "p", "e", "g">>) >>

C9_Witness ==
    /\ listed.called
    /\ Str(<<"n", "o", "t", "e", "s", ".", "t", "x", "t">>) \in listed.names
    /\ Len(photos) = 3
    /\ photos[1].filename = Str(<<"1", "f", "e", ".", "J", "P", "G">>)
    /\ photos[3].filename = Str(<<"D", ".", "P", "N", "G">>)

\* ------------------------------------------------------------------- C11
\* A session whose task has deregistered it (pc "closing" or "closed").
Deregistered(s) == pc[s] \in {"closing", "closed"}

\* The target of the send attempt task s makes in this step, 0 if it makes none.
SendTarget(s) ==
    IF Len(attempts'[s]) = Len(attempts[s]) + 1
    THEN attempts'[s][Len(attempts'[s])].to
    ELSE 0

\* C11 as stated: no broadcast, one already in flight included, attempts a
\* send to a session that has reached Closed.
C11_NoSendToClosed == lateSends = {}

\* C11 amended: Closed is terminal for the session's own task (it stays
\* Closed, its close outcome is settled and it is never in the registry
\* again), a snapshot taken after a session was deregistered never holds it,
\* and every send goes to a member of the sender's snapshot; only a broadcast
\* whose snapshot predates the closure can still attempt the session.
C11_ClosedIsTerminal ==
    [][\A r \in Sessions :
          /\ pc[r] = "closed" =>
                /\ pc'[r] = "closed"
                /\ closeResult'[r] = closeResult[r]
                /\ ~Registered(r)'
          /\ \A s \in Sessions :
                /\ (snap'[s] # snap[s] /\ snap'[s] # <<>> /\ Deregistered(r))
                      => r \notin Range(snap'[s])
                /\ SendTarget(s) = r => r \in Range(snap[s])
      ]_vars

\* A broadcast in flight attempted r after r had closed, and a later broadcast
\* of the same sender, snapshot taken after the closure, left r out.
C11_Witness ==
    \E r, s \in Sessions :
        /\ r # s
        /\ r \in lateSends
        /\ pc[r] = "closed"
        /\ BroadcastCompleted(s)
        /\ r \notin Range(regAtCall[s])
        /\ AttemptsOn(s, s) = 1

\* ------------------------------------------------------------------- C12
\* C12: the attempts of a broadcast are, in order, the sessions that were in
\* the registry when it took its snapshot: while it runs they are a prefix of
\* that list, and once it has returned they are the whole list, whatever
\* other tasks did to the registry while it was suspended in a send.
C12_SnapshotDiscipline ==
    \A s \in Sessions :
        heard[s] # "" =>
            LET n == Len(attempts[s])
            IN  /\ n <= Len(regAtCall[s])
                /\ \A i \in 1..n : attempts[s][i].to = regAtCall[s][i]
                /\ pc[s] = "reading" => n = Len(regAtCall[s])
                /\ pc[s] = "sending" => n < Len(regAtCall[s]) /\ idx[s] = n + 1

\* A broadcast has returned after another session left the registry while it
\* was suspended: the session that left was still attempted, exactly once.
C12_Witness ==
    \E s, r \in Sessions :
        /\ r # s
        /\ BroadcastCompleted(s)
        /\ regAtCall[s] # active_connections
        /\ r \in Range(regAtCall[s])
        /\ ~Registered(r)
        /\ r \in lateSends
        /\ AttemptsOn(s, r) = 1

\* ------------------------------------------------------------------- C13
\* Task s reads a text and starts a broadcast in this step.
ReadsNext(s) ==
    /\ nBroadcasts' = nBroadcasts + 1
    /\ <<pc[s], heard[s], attempts[s], regAtCall[s], snap[s]>>
         # <<pc'[s], heard'[s], attempts'[s], regAtCall'[s], snap'[s]>>

\* C13: a session reads its next message only when it is back in its read
\* loop with no send of its own pending: the broadcast of the message it read
\* before has attempted every session of its snapshot with that message; and
\* every attempt of the broadcast in progress carries the message read last.
C13_PerSenderOrder ==
    [][\A s \in Sessions :
          /\ ReadsNext(s) =>
                /\ pc[s] = "reading"
                /\ snap[s] = <<>> /\ idx[s] = 0 /\ data[s] = ""
                /\ heard[s] # "" =>
                      /\ Len(attempts[s]) = Len(regAtCall[s])
                      /\ \A i \in 1..Len(attempts[s]) : attempts[s][i].text = heard[s]
                /\ attempts'[s] = <<>>
          /\ \A i \in 1..Len(attempts'[s]) : attempts'[s][i].text = heard'[s]
      ]_vars

\* Session s has read two messages one after the other, the other session
\* none, and the second broadcast of s has attempted both sessions.
C13_Witness ==
    \E s, r \in Sessions :
        /\ r # s
        /\ nBroadcasts = 2
        /\ pc[r] = "reading" /\ heard[r] = ""
        /\ BroadcastCompleted(s)
        /\ heard[s] = "bye"
        /\ AttemptsOn(s, r) = 1 /\ AttemptsOn(s, s) = 1

\* ------------------------------------------------------------------- C14
\* C14: once the peer of a session has disconnected or its connection is
\* broken, the session is eventually deregistered and Closed, and from then
\* on it is never in the registry again.
C14_CleanupLiveness ==
    \A s \in Sessions :
        (peer[s] # "up") ~> [](pc[s] = "closed" /\ ~Registered(s))

\* One session closed after its peer disconnected, the other after a read
\* failure, its close attempted; neither is registered.
C14_Witness ==
    \E s, r \in Sessions :
        /\ peer[s] = "gone" /\ pc[s] = "closed" /\ closeResult[s] = "none"
        /\ peer[r] = "error" /\ pc[r] = "closed" /\ closeResult[r] # "none"
        /\ active_connections = <<>>
        /\ nBroadcasts > 0

\* ------------------------------------------------------------------- C15
\* C15: on the unexpected-failure path the session is out of the registry
\* before its close is attempted; the close, whether it returns or raises,
\* leaves the session Closed and unregistered and the task ends normally; on
\* the explicit-disconnect path the session is deregistered and goes to
\* Closed with no close attempted, then or later.
C15_CloseIsBestEffort ==
    [][\A s \in Sessions :
          /\ pc'[s] = "closing" => ~Registered(s)' /\ closeResult'[s] = "none"
          /\ pc[s] = "closing" => pc'[s] \in {"closing", "closed"}
          /\ (pc[s] = "closing" /\ pc'[s] = "closed") =>
                closeResult'[s] \in {"ok", "raised"} /\ ~Registered(s)'
          /\ (pc[s] = "reading" /\ pc'[s] = "closed") =>
                closeResult'[s] = "none" /\ ~Registered(s)'
          /\ pc[s] = "closed" => closeResult'[s] = closeResult[s]
      ]_vars

\* One session ended on the unexpected-failure path with a close that
\* raised, the other on the explicit-disconnect path.
C15_Witness ==
    \E s, r \in Sessions :
        /\ pc[s] = "closed" /\ closeResult[s] = "raised" /\ ~Registered(s)
        /\ pc[r] = "closed" /\ closeResult[r] = "none" /\ ~Registered(r)

\* ------------------------------------------------------------------- C16
\* The spec's lifecycle state of a session.
Life(s) ==
    CASE pc[s] = "new" -> "Connecting"
      [] pc[s] \in {"reading", "sending"} -> "Active"
      [] OTHER -> "Closed"

\* This step is the end of the read loop of S (disconnect or read failure),
\* or a send attempt on S by some task (failed or not).
StepOn(S) ==
    \/ pc[S] = "reading" /\ pc'[S] \in {"closing", "closed"}
    \/ \E t \in Sessions : SendTarget(t) = S

\* C16: a disconnect or read failure of S, and any send to S, failed ones
\* included, leave the lifecycle state and the registry membership of every
\* other session as they were; Active sessions stay registered, and a
\* broadcast that starts takes every Active session into its snapshot.
C16_FailureIsolation ==
    [][\A S \in Sessions :
          /\ StepOn(S) =>
                \A r \in Sessions \ {S} :
                    /\ Life(r)' = Life(r)
                    /\ Registered(r)' = Registered(r)
                    /\ Active(r) => Registered(r)'
          /\ ReadsNext(S) =>
                \A r \in Sessions : Active(r) => r \in Range(snap'[S])
      ]_vars

\* S failed as a recipient and then closed; a later broadcast of the other
\* session, still Active, went to that session alone.
C16_Witness ==
    \E S, r \in Sessions :
        /\ S # r
        /\ pc[S] = "closed" /\ S \in failed
        /\ BroadcastCompleted(r)
        /\ Registered(r)
        /\ regAtCall[r] = <<r>>
        /\ AttemptsOn(r, r) = 1

\* ------------------------------------------------------------------- C17
\* A stored file that holds a whole payload (or what it held before any upload).
Complete(n) == files[n] \in Payloads \cup {OldContents}

\* C17 (SpecPhotos): in every reachable state, whatever the outcome of the
\* uploads so far, every file of the store holds a whole payload, none is
\* empty or cut short, and so does every file a listing names.
C17_NoPartialFile ==
    /\ \A n \in DOMAIN files : Complete(n)
    /\ listed.called =>
          \A i \in 1..Len(photos) :
              photos[i].filename \in DOMAIN files /\ Complete(photos[i].filename)

\* ------------------------------------------------------------------- C18
\* No element occurs twice in seq.
Distinct(seq) == \A i, j \in 1..Len(seq) : i # j => seq[i] # seq[j]

\* C18: in every reachable state no session occurs twice in the registry or
\* in a snapshot of it, a session whose task has called disconnect is not in
\* the registry at all, and no broadcast has attempted a session twice.
C18_MembershipUnique ==
    /\ Distinct(active_connections)
    /\ \A s \in Sessions :
          /\ Distinct(snap[s]) /\ Distinct(regAtCall[s])
          /\ Deregistered(s) => ~Registered(s)
          /\ \A r \in Sessions : AttemptsOn(s, r) <= 1

\* Both sessions registered, one left with a single disconnect, and the
\* broadcast that was running attempted each of the two once.
C18_Witness ==
    \E s, r \in Sessions :
        /\ s # r
        /\ pc[r] = "closed"
        /\ active_connections = <<s>>
        /\ BroadcastCompleted(s)
        /\ Len(regAtCall[s]) = 2
        /\ AttemptsOn(s, s) = 1 /\ AttemptsOn(s, r) = 1

\* ------------------------------------------------------------------- C19
\* C19: a session enters the registry only in the step that accepts its
\* handshake; the step in which a handshake fails leaves the registry as it
\* was, and a session whose handshake failed is never registered, is in no
\* snapshot and is never the target of a send.
C19_RegisteredOnlyAfterAccept ==
    [][\A s \in Sessions :
          /\ Registered(s)' => handshake'[s] = "accepted"
          /\ (Registered(s)' /\ ~Registered(s)) =>
                handshake[s] = "connecting" /\ pc[s] = "new"
          /\ (handshake'[s] = "failed" /\ handshake[s] # "failed") =>
                active_connections' = active_connections
          /\ handshake[s] = "failed" =>
                /\ pc'[s] = "failed" /\ handshake'[s] = "failed"
                /\ ~Registered(s)'
                /\ \A t \in Sessions :
                      s \notin Range(snap'[t]) /\ SendTarget(t) # s
      ]_vars

\* The handshake of one session failed; the other registered, and its
\* broadcast afterwards went to itself alone.
C19_Witness ==
    \E s, r \in Sessions :
        /\ s # r
        /\ handshake[s] = "failed" /\ pc[s] = "failed"
        /\ active_connections = <<r>>
        /\ BroadcastCompleted(r)
        /\ regAtCall[r] = <<r>>
        /\ AttemptsOn(r, r) = 1 /\ AttemptsOn(r, s) = 0

====
